---- MODULE Spec2Model ----
(***************************************************************************)
(* TradingClaw forecast scoring pipeline.                                  *)
(*                                                                         *)
(* The committed database (market_cache and forecasts tables), the         *)
(* resolution worker (sync_resolved_markets, score_pending_forecasts,      *)
(* score_forecasts_for_market), the forecast submission handler and the    *)
(* active-market sync.  Every handler runs in its own SQLAlchemy session:  *)
(* a statement reads the committed tables, attribute writes stay in the    *)
(* session until commit, and a commit writes the changed columns of the    *)
(* changed rows in one transaction.                                        *)
(*                                                                         *)
(* Probabilities and prices are in percent (0.3 is 30); Brier scores are   *)
(* in 1/10000 (0.04 is 400).                                               *)
(***************************************************************************)
EXTENDS Integers, Sequences, FiniteSets, TLC

VARIABLES
    markets,      \* market_cache table: market id -> row
    forecasts,    \* forecasts table: sequence of rows, the index is the row id
    wl,           \* resolution worker processes: worker -> local state
    rl,           \* submit_forecast requests in flight: slot -> local state
    ms,           \* the active-market sync session
    agent_status, \* agents table: agent id -> status
    out,          \* the response of the read-only request handled in the last step
    lastCall,     \* history: the latest returned call of score_forecasts_for_market
    wrote,        \* history: the worker's running sync tick has committed a change
    retry,        \* history: the latest failed pass of score_forecasts_for_market
    subs,         \* history: per forecast row, the probabilities its agent submitted
    tick,         \* history: what the worker's running sync tick has drawn and read
    challenges,   \* _challenges: agent id -> the pending challenge, or NoChallenge
    now,          \* the clock read by datetime.utcnow(), in units of five minutes
    ll,           \* login requests in flight: slot -> local state
    logins,       \* history: per issued challenge, the logins that returned a token
    timesScored   \* history: per forecast row, number of passes that counted it

vars == <<markets, forecasts, wl, rl, ms, agent_status, out, lastCall, wrote, retry,
          subs, tick, challenges, now, ll, logins, timesScored>>

\* lastCall, wrote, retry, subs and tick are written by the observers Calls,
\* Ticks, Retries, Submits and Batch below, which a specification attaches to the actions it
\* observes
\* agent_status and out are written by the agent routes and the read-only
\* routes of the specifications that include them
\* challenges, now, ll and logins are written by the authentication routes
auth == <<challenges, now, ll, logins>>

queries == <<agent_status, out, auth>>

obs == <<lastCall, wrote, retry, subs, tick, queries>>

----------------------------------------------------------------------------
(* Bounds and input domains *)

Agents == {"a1", "a2"}
Markets == {"m1", "m2"}
Workers == {"w1", "w2"}
Requests == {"r1", "r2"}
\* request bodies that pass the validation of ForecastCreate
Payloads ==
    {[probability |-> 30, confidence |-> "high", reasoning |-> "t1"],
     [probability |-> 80, confidence |-> "low", reasoning |-> "t2"]}
Prices == {40, 60}
RawResolutions == {"YES", "no", "maybe", ""}
DateKinds == {"iso", "num"}

MaxForecasts == 2
\* challenges issued by get_challenge
MaxChallenges == 2
MaxBatch == 2

NULL == -1

----------------------------------------------------------------------------
(* Scoring primitive *)

Brier_NoSquare(probability, outcome) ==
    LET outcome_value == IF outcome = "yes" THEN 100 ELSE 0
        d == probability - outcome_value
    IN  IF d < 0 THEN 0 - d ELSE d

calculate_brier_score(probability, outcome) ==
    LET outcome_value == IF outcome = "yes" THEN 100 ELSE 0
    IN  (probability - outcome_value) * (probability - outcome_value)

----------------------------------------------------------------------------
(* Rows *)

NoMarket ==
    [exists |-> FALSE, yes_price |-> NULL, resolved |-> FALSE,
     resolution_outcome |-> "null"]

ForecastRow(a, m, p, c, t, price) ==
    [agent_id |-> a, market_id |-> m, probability |-> p, confidence |-> c,
     reasoning |-> t, market_price_at_forecast |-> price,
     outcome |-> "null", brier_score |-> NULL]

----------------------------------------------------------------------------
(* The resolution feed: PolymarketClient.get_resolved_markets *)

\* one market of the feed's response body
RawEntries(ids, prices) ==
    [id : ids, resolved : BOOLEAN, resolution : RawResolutions,
     endDate : DateKinds, yes_price : prices]

\* str.upper() on the strings of RawResolutions
Upper(s) ==
    CASE s = "no" -> "NO"
      [] s = "maybe" -> "MAYBE"
      [] OTHER -> s

\* the conversion of the resolution string to the boolean outcome
ParseResolution(resolved, resolution_str) ==
    IF resolved /\ resolution_str # ""
    THEN IF Upper(resolution_str) \in {"YES", "TRUE", "1"} THEN "yes"
         ELSE IF Upper(resolution_str) \in {"NO", "FALSE", "0"} THEN "no"
         ELSE "null"
    ELSE "null"

\* the dict appended for one market of the response
get_resolved_markets(market) ==
    [id |-> market.id,
     yes_price |-> market.yes_price,
     resolution_date |-> market.endDate,
     resolved |-> market.resolved,
     resolution_outcome |-> ParseResolution(market.resolved, market.resolution)]

HasOutcome_FlagOnly(m) == m.resolved

\* the filter that builds markets_with_outcomes
HasOutcome(m) == m.resolved /\ m.resolution_outcome # "null"

----------------------------------------------------------------------------
(* Session helpers *)

NoPend ==
    [m \in Markets |-> [op |-> "none", outcome |-> "null", yes_price |-> NULL]]

\* what a session sees of market m: the committed row overlaid with its own
\* flushed, uncommitted writes
SessionMarket(pend, m) ==
    CASE pend[m].op = "insert" ->
            [exists |-> TRUE, yes_price |-> pend[m].yes_price, resolved |-> TRUE,
             resolution_outcome |-> pend[m].outcome]
      [] pend[m].op = "update" ->
            [markets[m] EXCEPT !.resolved = TRUE,
                               !.resolution_outcome = pend[m].outcome]
      [] OTHER -> markets[m]

\* INSERT of a primary key that is committed by now fails the flush
InsertConflict(mk, pend) ==
    \E m \in Markets : pend[m].op = "insert" /\ mk[m].exists

\* the flushed market writes as applied by the commit: an UPDATE sets only
\* the changed columns of the row
ApplyMarketWrites(mk, pend) ==
    [m \in Markets |->
        CASE pend[m].op = "insert" ->
                [exists |-> TRUE, yes_price |-> pend[m].yes_price,
                 resolved |-> TRUE, resolution_outcome |-> pend[m].outcome]
          [] pend[m].op = "update" ->
                [mk[m] EXCEPT !.resolved = TRUE,
                              !.resolution_outcome = pend[m].outcome]
          [] OTHER -> mk[m]]

\* sync_resolved_markets, the branch on the cached row of the feed entry
MarketWrite_NoGuard(existing, outcome, price) ==
    IF existing.exists
    THEN [op |-> "update", outcome |-> outcome, yes_price |-> NULL]
    ELSE [op |-> "insert", outcome |-> outcome, yes_price |-> price]

MarketWrite(existing, outcome, price) ==
    IF existing.exists
    THEN IF ~existing.resolved
         THEN [op |-> "update", outcome |-> outcome, yes_price |-> NULL]
         ELSE [op |-> "none", outcome |-> "null", yes_price |-> NULL]
    ELSE [op |-> "insert", outcome |-> outcome, yes_price |-> price]

----------------------------------------------------------------------------
(* score_forecasts_for_market *)

AllIdsOfMarket(fs, market_id) ==
    {k \in DOMAIN fs : fs[k].market_id = market_id}

\* the select: forecasts of the market whose brier_score IS NULL
UnscoredIds(fs, market_id) ==
    {k \in DOMAIN fs : fs[k].market_id = market_id /\ fs[k].brier_score = NULL}

\* rows returned by a select enter the identity map of the session; a row
\* that is already in it keeps the attribute values loaded first
Load(loaded, fs, ids) ==
    [k \in (DOMAIN loaded) \cup ids |->
        IF k \in DOMAIN loaded THEN loaded[k] ELSE fs[k].probability]

ApplyScores_BrierOnly(fs, ids, loaded, outcome) ==
    [k \in DOMAIN fs |->
        IF k \in ids
        THEN [fs[k] EXCEPT !.brier_score = calculate_brier_score(loaded[k], outcome)]
        ELSE fs[k]]

\* the loop body as flushed by the commit: UPDATE forecasts SET brier_score,
\* outcome WHERE id = k, one statement per row, all in one transaction
ApplyScores(fs, ids, loaded, outcome) ==
    [k \in DOMAIN fs |->
        IF k \in ids
        THEN [fs[k] EXCEPT !.brier_score = calculate_brier_score(loaded[k], outcome),
                           !.outcome = outcome]
        ELSE fs[k]]

----------------------------------------------------------------------------
(* The resolution worker: run_worker *)

\* pc: "sleep" (asyncio.sleep), "sync" (loop of sync_resolved_markets),
\* "score_read", "score_write" (inside score_forecasts_for_market), "backfill",
\* "backfill_loop" (score_pending_forecasts), "except" (the except clause of
\* run_worker, cause: what raised, in_sync: whether sync_resolved_markets
\* raised it) and "done" (the try block has completed).  skipped: the market
\* drawn last was flagged resolved and dropped by the filter.
WIdle ==
    [pc |-> "sleep", i |-> 0, pend |-> NoPend, skipped |-> FALSE,
     market_id |-> "none", outcome |-> "null", loaded |-> <<>>, result |-> {},
     total_scored |-> 0,
     caller |-> "none", todo |-> {}, cause |-> "none", in_sync |-> FALSE]

Min(a, b) == IF a < b THEN a ELSE b

\* the exception leaves the session (rollback) and run_worker's try block
Raise(w, cause) ==
    wl' = [wl EXCEPT ![w] =
             [WIdle EXCEPT !.pc = "except", !.cause = cause,
                           !.in_sync = wl[w].pc \in {"sleep", "sync"} \/ wl[w].caller = "sync"]]

\* get_resolved_markets raises: the feed is unreachable, answers with an
\* error status, or with a body that cannot be converted
FetchFails(w) ==
    /\ wl[w].pc = "sleep"
    /\ Raise(w, "feed")
    /\ UNCHANGED <<markets, forecasts, rl, ms, timesScored>>

\* get_resolved_markets returns a list; its markets are drawn one by one as
\* the loop of sync_resolved_markets reaches them
FetchResolved(w) ==
    /\ wl[w].pc = "sleep"
    /\ wl' = [wl EXCEPT ![w] = [WIdle EXCEPT !.pc = "sync"]]
    /\ UNCHANGED <<markets, forecasts, rl, ms, timesScored>>

\* the next market of the feed: conversion, filter, and one iteration of the
\* loop over markets_with_outcomes up to the call of score_forecasts_for_market
SyncMarket(w, market) ==
    LET m_data == get_resolved_markets(market)
        existing == SessionMarket(wl[w].pend, m_data.id)
        write == MarketWrite(existing, m_data.resolution_outcome, m_data.yes_price)
    IN  /\ wl[w].pc = "sync"
        /\ wl[w].i < MaxBatch
        /\ IF ~HasOutcome(m_data)
           THEN wl' = [wl EXCEPT ![w].i = @ + 1, ![w].skipped = m_data.resolved]
           ELSE IF m_data.resolution_date = "num"
           THEN Raise(w, "feed")
           ELSE wl' = [wl EXCEPT
                         ![w].i = @ + 1,
                         ![w].skipped = FALSE,
                         ![w].pend[m_data.id] = IF write.op = "none" THEN @ ELSE write,
                         ![w].market_id = m_data.id,
                         ![w].outcome = m_data.resolution_outcome,
                         ![w].caller = "sync",
                         ![w].loaded = <<>>,
                         ![w].pc = "score_read"]
        /\ UNCHANGED <<markets, forecasts, rl, ms, timesScored>>

ScoreRead_AnyMarket(w) ==
    /\ wl[w].pc = "score_read"
    /\ LET ids == {k \in DOMAIN forecasts : forecasts[k].brier_score = NULL}
       IN  wl' = [wl EXCEPT ![w].result = ids,
                            ![w].loaded = Load(@, forecasts, ids),
                            ![w].pc = "score_write"]
    /\ UNCHANGED <<markets, forecasts, rl, ms, timesScored>>

\* score_forecasts_for_market: the select
ScoreRead(w) ==
    /\ wl[w].pc = "score_read"
    /\ LET ids == UnscoredIds(forecasts, wl[w].market_id)
       IN  wl' = [wl EXCEPT ![w].result = ids,
                            ![w].loaded = Load(@, forecasts, ids),
                            ![w].pc = "score_write"]
    /\ UNCHANGED <<markets, forecasts, rl, ms, timesScored>>

Return(w, committed) ==
    wl' = [wl EXCEPT
             ![w].result = {},
             ![w].total_scored = @ + Cardinality(wl[w].result),
             ![w].loaded = <<>>,
             ![w].market_id = "none",
             ![w].outcome = "null",
             ![w].pend = IF committed THEN NoPend ELSE @,
             ![w].pc = IF wl[w].caller = "sync" THEN "sync" ELSE "backfill_loop"]

ScoreWrite_OwnSession(w) ==
    LET scored_count == Cardinality(wl[w].result)
    IN  /\ wl[w].pc = "score_write"
        /\ IF scored_count > 0
           THEN /\ forecasts' = ApplyScores(forecasts, wl[w].result,
                                            wl[w].loaded, wl[w].outcome)
                /\ timesScored' = [k \in DOMAIN timesScored |->
                                     IF k \in wl[w].result
                                     THEN Min(timesScored[k] + 1, 2)
                                     ELSE timesScored[k]]
                /\ Return(w, FALSE)
           ELSE /\ Return(w, FALSE)
                /\ UNCHANGED <<forecasts, timesScored>>
        /\ UNCHANGED <<markets, rl, ms>>

\* score_forecasts_for_market: the loop over the selected rows, the commit
\* and the return
ScoreWrite(w) ==
    LET scored_count == Cardinality(wl[w].result)
    IN  /\ wl[w].pc = "score_write"
        /\ IF scored_count > 0
           THEN IF InsertConflict(markets, wl[w].pend)
                THEN /\ Raise(w, "storage")
                     /\ UNCHANGED <<markets, forecasts, timesScored>>
                ELSE /\ forecasts' = ApplyScores(forecasts, wl[w].result,
                                                 wl[w].loaded, wl[w].outcome)
                     /\ markets' = ApplyMarketWrites(markets, wl[w].pend)
                     /\ timesScored' = [k \in DOMAIN timesScored |->
                                          IF k \in wl[w].result
                                          THEN Min(timesScored[k] + 1, 2)
                                          ELSE timesScored[k]]
                     /\ Return(w, TRUE)
           ELSE /\ Return(w, FALSE)
                /\ UNCHANGED <<markets, forecasts, timesScored>>
        /\ UNCHANGED <<rl, ms>>

\* the end of the feed: the commit that ends sync_resolved_markets
SyncFinish(w) ==
    /\ wl[w].pc = "sync"
    /\ IF InsertConflict(markets, wl[w].pend)
       THEN /\ Raise(w, "storage")
            /\ UNCHANGED markets
       ELSE /\ markets' = ApplyMarketWrites(markets, wl[w].pend)
            /\ wl' = [wl EXCEPT
                        ![w] = [WIdle EXCEPT !.pc = "backfill"]]
    /\ UNCHANGED <<forecasts, rl, ms, timesScored>>

ResolvedMarkets_Unresolved(mk) ==
    {x \in Markets : mk[x].exists /\ ~mk[x].resolved}

\* score_pending_forecasts: the select of the resolved markets
ResolvedMarkets(mk) ==
    {x \in Markets :
        mk[x].exists /\ mk[x].resolved /\ mk[x].resolution_outcome # "null"}

\* score_pending_forecasts up to its loop
BackfillStart(w) ==
    /\ wl[w].pc = "backfill"
    /\ wl' = [wl EXCEPT
                ![w].todo = {[id |-> m, outcome |-> markets[m].resolution_outcome] :
                               m \in ResolvedMarkets(markets)},
                ![w].pc = "backfill_loop"]
    /\ UNCHANGED <<markets, forecasts, rl, ms, timesScored>>

\* one iteration of the loop over resolved_markets up to the call
BackfillCheck(w, market) ==
    /\ wl[w].pc = "backfill_loop"
    /\ market \in wl[w].todo
    /\ LET unscored == UnscoredIds(forecasts, market.id)
       IN  wl' = [wl EXCEPT
                    ![w].todo = @ \ {market},
                    ![w].market_id = IF unscored # {} THEN market.id ELSE "none",
                    ![w].outcome = IF unscored # {} THEN market.outcome ELSE "null",
                    ![w].caller = "backfill",
                    ![w].loaded = IF unscored # {}
                                  THEN Load(<<>>, forecasts, unscored) ELSE <<>>,
                    ![w].pc = IF unscored # {} THEN "score_read" ELSE "backfill_loop"]
    /\ UNCHANGED <<markets, forecasts, rl, ms, timesScored>>

\* the end of score_pending_forecasts and of the cycle
BackfillFinish(w) ==
    /\ wl[w].pc = "backfill_loop"
    /\ wl[w].todo = {}
    /\ wl' = [wl EXCEPT ![w] = [WIdle EXCEPT !.pc = "done"]]
    /\ UNCHANGED <<markets, forecasts, rl, ms, timesScored>>

\* a statement or commit of the worker's session fails
StorageFailure(w) ==
    /\ wl[w].pc \notin {"sleep", "except", "done"}
    /\ Raise(w, "storage")
    /\ UNCHANGED <<markets, forecasts, rl, ms, timesScored>>

WorkerExcept_Exits(w) ==
    /\ wl[w].pc = "except"
    /\ wl' = [wl EXCEPT ![w] = [WIdle EXCEPT !.pc = "exited"]]
    /\ UNCHANGED <<markets, forecasts, rl, ms, timesScored>>

\* the except clause logs the failure, then the worker sleeps
WorkerExcept(w) ==
    /\ wl[w].pc = "except"
    /\ wl' = [wl EXCEPT ![w] = WIdle]
    /\ UNCHANGED <<markets, forecasts, rl, ms, timesScored>>

\* the try block has completed, the worker sleeps
WorkerSleep(w) ==
    /\ wl[w].pc = "done"
    /\ wl' = [wl EXCEPT ![w] = WIdle]
    /\ UNCHANGED <<markets, forecasts, rl, ms, timesScored>>

----------------------------------------------------------------------------
(* submit_forecast *)

RIdle ==
    [pc |-> "idle", agent_id |-> "none", market_id |-> "none", probability |-> 0,
     confidence |-> "none", reasoning |-> "none", existing |-> 0,
     old |-> [probability |-> 0, confidence |-> "none", reasoning |-> "none"],
     market_price |-> NULL]

\* rows matched by the select on (agent_id, market_id)
FindExisting(fs, a, m) ==
    {k \in DOMAIN fs : fs[k].agent_id = a /\ fs[k].market_id = m}

Changed_Never(old, new, current) == current

\* the UPDATE flushed for a changed attribute sets that column only
Changed(old, new, current) == IF new # old THEN new ELSE current

SubmitWrite_AlwaysInsert(fs, req) ==
    Append(fs, ForecastRow(req.agent_id, req.market_id, req.probability,
                           req.confidence, req.reasoning, req.market_price))

SubmitWrite(fs, req) ==
    IF req.existing # 0
    THEN [fs EXCEPT ![req.existing] =
            [@ EXCEPT !.probability = Changed(req.old.probability, req.probability, @),
                      !.confidence = Changed(req.old.confidence, req.confidence, @),
                      !.reasoning = Changed(req.old.reasoning, req.reasoning, @)]]
    ELSE Append(fs, ForecastRow(req.agent_id, req.market_id, req.probability,
                                req.confidence, req.reasoning, req.market_price))

InsertsInFlight == Cardinality({r \in Requests : rl[r].pc = "insert"})

\* the handler up to its first commit: the select of the existing forecast
\* and, when there is none, the select of the market's cached price
SubmitLookup(r, a, m, forecast_data) ==
    LET found == FindExisting(forecasts, a, m)
        req == [RIdle EXCEPT !.agent_id = a, !.market_id = m,
                             !.probability = forecast_data.probability,
                             !.confidence = forecast_data.confidence,
                             !.reasoning = forecast_data.reasoning]
    IN  /\ rl[r].pc = "idle"
        /\ CASE Cardinality(found) > 1 ->
                  \* scalar_one_or_none raises MultipleResultsFound
                  rl' = [rl EXCEPT ![r] = RIdle]
             [] Cardinality(found) = 1 ->
                  LET k == CHOOSE x \in found : TRUE
                  IN  rl' = [rl EXCEPT ![r] =
                               [req EXCEPT !.pc = "update", !.existing = k,
                                           !.old = [probability |-> forecasts[k].probability,
                                                    confidence |-> forecasts[k].confidence,
                                                    reasoning |-> forecasts[k].reasoning]]]
             [] OTHER ->
                  /\ Len(forecasts) + InsertsInFlight < MaxForecasts
                  /\ rl' = [rl EXCEPT ![r] =
                              [req EXCEPT !.pc = "insert",
                                          !.market_price =
                                              IF markets[m].exists
                                              THEN markets[m].yes_price ELSE NULL]]
        /\ UNCHANGED <<markets, forecasts, wl, ms, timesScored>>

SubmitCommit_Reprices(r) ==
    /\ rl[r].pc \in {"update", "insert"}
    /\ forecasts' =
          IF rl[r].pc = "update"
          THEN [SubmitWrite(forecasts, rl[r]) EXCEPT
                  ![rl[r].existing].market_price_at_forecast =
                      IF markets[rl[r].market_id].exists
                      THEN markets[rl[r].market_id].yes_price ELSE NULL]
          ELSE SubmitWrite(forecasts, rl[r])
    /\ timesScored' = IF Len(forecasts') > Len(forecasts)
                      THEN Append(timesScored, 0) ELSE timesScored
    /\ rl' = [rl EXCEPT ![r].pc = IF rl[r].pc = "update" THEN "updated" ELSE "created",
                         ![r].existing = IF rl[r].pc = "update" THEN @
                                         ELSE Len(forecasts')]
    /\ UNCHANGED <<markets, wl, ms>>

\* db.commit() of the handler
SubmitCommit(r) ==
    /\ rl[r].pc \in {"update", "insert"}
    /\ forecasts' = SubmitWrite(forecasts, rl[r])
    /\ timesScored' = IF Len(forecasts') > Len(forecasts)
                      THEN Append(timesScored, 0) ELSE timesScored
    /\ rl' = [rl EXCEPT ![r].pc = IF rl[r].pc = "update" THEN "updated" ELSE "created",
                         ![r].existing = IF rl[r].pc = "update" THEN @
                                         ELSE Len(forecasts')]
    /\ UNCHANGED <<markets, wl, ms>>

\* after the commit: db.refresh, for a new forecast the commit of the agent's
\* last_active_at, and the ForecastResponse
SubmitRespond(r) ==
    /\ rl[r].pc \in {"updated", "created"}
    /\ rl' = [rl EXCEPT ![r] = RIdle]
    /\ UNCHANGED <<markets, forecasts, wl, ms, timesScored>>

----------------------------------------------------------------------------
(* Active-market sync: sync_markets (worker) and refresh_markets (route) *)

MSIdle == [pc |-> "idle", batch |-> [m \in Markets |-> NULL], seen |-> {}]

MarketBatches == [Markets -> Prices \cup {NULL}] \ {[m \in Markets |-> NULL]}

\* the loop over the fetched markets: select of the cached row per market
ActiveSyncRead(batch) ==
    /\ ms.pc = "idle"
    /\ ms' = [pc |-> "loaded", batch |-> batch,
              seen |-> {m \in Markets : batch[m] # NULL /\ markets[m].exists}]
    /\ UNCHANGED <<markets, forecasts, wl, rl, timesScored>>

sync_markets(batch) == ActiveSyncRead(batch)

refresh_markets(batch) == ActiveSyncRead(batch)

\* scripts/sync_markets.py: session.merge looks the row up by primary key
sync(batch) == ActiveSyncRead(batch)

\* existing rows get the new prices, the others are created unresolved
UpsertActive(mk, batch, seen) ==
    [m \in Markets |->
        IF batch[m] = NULL THEN mk[m]
        ELSE IF m \in seen THEN [mk[m] EXCEPT !.yes_price = batch[m]]
        ELSE [exists |-> TRUE, yes_price |-> batch[m], resolved |-> FALSE,
              resolution_outcome |-> "null"]]

\* the commit; the INSERT of a row committed meanwhile fails the session
ActiveSyncCommit ==
    /\ ms.pc = "loaded"
    /\ markets' = IF \E m \in Markets :
                       ms.batch[m] # NULL /\ m \notin ms.seen /\ markets[m].exists
                  THEN markets
                  ELSE UpsertActive(markets, ms.batch, ms.seen)
    /\ ms' = MSIdle
    /\ UNCHANGED <<forecasts, wl, rl, timesScored>>

----------------------------------------------------------------------------
(* Read-only routes *)

NoOut == [kind |-> "none"]

RECURSIVE GCD(_, _)
GCD(a, b) == IF b = 0 THEN a ELSE GCD(b, a % b)

\* a fraction num/den in lowest terms, as <<num, den>>
Frac(num, den) == <<num \div GCD(num, den), den \div GCD(num, den)>>

RECURSIVE SumOf(_, _)
SumOf(f, S) ==
    IF S = {} THEN 0
    ELSE LET x == CHOOSE y \in S : TRUE IN f[x] + SumOf(f, S \ {x})

RECURSIVE ProdOf(_, _)
ProdOf(f, S) ==
    IF S = {} THEN 1
    ELSE LET x == CHOOSE y \in S : TRUE IN f[x] * ProdOf(f, S \ {x})

\* get_consensus, the weight of one forecast: 1 / (avg_brier + 0.1) over the
\* scored forecasts of its agent, 1.0 for an agent without any
ConsensusWeight(fs, k, weighted) ==
    LET scored == {j \in DOMAIN fs :
                     fs[j].agent_id = fs[k].agent_id /\ fs[j].brier_score # NULL}
        n == Cardinality(scored)
        total == SumOf([j \in scored |-> fs[j].brier_score], scored)
    IN  IF weighted /\ n > 0 THEN Frac(10000 * n, total + 1000 * n) ELSE <<1, 1>>

\* np.average(probabilities, weights = weights) as a fraction
WeightedAverage(fs, ids, weighted) ==
    LET w == [k \in ids |-> ConsensusWeight(fs, k, weighted)]
        scaled == [k \in ids |->
                     w[k][1] * ProdOf([j \in ids \ {k} |-> w[j][2]], ids \ {k})]
    IN  Frac(SumOf([k \in ids |-> fs[k].probability * scaled[k]], ids),
             SumOf(scaled, ids))

ConsensusIds_Everything(fs, market_id) == DOMAIN fs

\* get_consensus: the select of the forecasts of the market
ConsensusIds(fs, market_id) == {k \in DOMAIN fs : fs[k].market_id = market_id}

\* GET /forecasts/consensus/{market_id}; the spread (np.std) of the response
\* is left out
get_consensus(market_id, weighted) ==
    LET ids == ConsensusIds(forecasts, market_id)
    IN  /\ out' = IF ids = {}
                  THEN [kind |-> "consensus", status |-> 404, market_id |-> market_id]
                  ELSE [kind |-> "consensus", status |-> 200, market_id |-> market_id,
                        consensus_probability |->
                            WeightedAverage(forecasts, ids, weighted),
                        num_forecasters |-> Cardinality(ids),
                        weighted_by_reputation |-> weighted]
        /\ UNCHANGED <<markets, forecasts, wl, rl, ms, agent_status, timesScored>>

\* POST /agents/{agent_id}/pause by the agent itself
pause_agent(agent_id) ==
    /\ agent_status' = [agent_status EXCEPT ![agent_id] = "paused"]
    /\ out' = NoOut
    /\ UNCHANGED <<markets, forecasts, wl, rl, ms, timesScored>>

\* POST /agents/{agent_id}/resume by the agent itself
resume_agent(agent_id) ==
    /\ agent_status' = [agent_status EXCEPT ![agent_id] = "active"]
    /\ out' = NoOut
    /\ UNCHANGED <<markets, forecasts, wl, rl, ms, timesScored>>

\* the sequences that list every element of S once: the orders in which a
\* select without ORDER BY can return its rows
Orders(S) ==
    {q \in [1..Cardinality(S) -> S] : \A x \in S : \E i \in DOMAIN q : q[i] = x}

\* get_benchmark_comparison, the entry of one agent; brier_score is the
\* average sum / resolved_forecasts
BenchmarkEntry(fs, agent_id) ==
    LET scored == {k \in DOMAIN fs :
                     fs[k].agent_id = agent_id /\ fs[k].brier_score # NULL}
    IN  [agent_id |-> agent_id,
         brier_score |-> IF scored = {} THEN <<0, 1>>
                         ELSE Frac(SumOf([k \in scored |-> fs[k].brier_score], scored),
                                   Cardinality(scored)),
         resolved_forecasts |-> Cardinality(scored)]

\* the loop over the selected agents: agents without scored forecasts are skipped
RECURSIVE BenchmarkEntries(_, _)
BenchmarkEntries(fs, agents) ==
    IF agents = <<>> THEN <<>>
    ELSE LET e == BenchmarkEntry(fs, Head(agents))
         IN  IF e.resolved_forecasts = 0
             THEN BenchmarkEntries(fs, Tail(agents))
             ELSE <<e>> \o BenchmarkEntries(fs, Tail(agents))

\* x < y on fractions with positive denominators
FracLess(x, y) == x[1] * y[2] < y[1] * x[2]

RECURSIVE InsertByBrier(_, _)
InsertByBrier(sorted, e) ==
    IF sorted = <<>> THEN <<e>>
    ELSE IF FracLess(e.brier_score, Head(sorted).brier_score)
         THEN <<e>> \o sorted
         ELSE <<Head(sorted)>> \o InsertByBrier(Tail(sorted), e)

\* the elements of entries inserted one after the other
RECURSIVE InsertEach(_)
InsertEach(entries) ==
    IF entries = <<>> THEN <<>>
    ELSE InsertByBrier(InsertEach(SubSeq(entries, 1, Len(entries) - 1)),
                       entries[Len(entries)])

SortByBrier_Unsorted(entries) == entries

\* entries.sort(key = brier_score): the stable sort, ascending
SortByBrier(entries) == InsertEach(entries)

\* entries[:limit]
SliceTo(entries, limit) ==
    IF limit >= 0
    THEN SubSeq(entries, 1, Min(limit, Len(entries)))
    ELSE SubSeq(entries, 1, Len(entries) + limit)

\* values of the query parameter limit (default 50, le = 100)
Limits == {-1, 1, 50}

\* get_benchmark_comparison: the select of the agents
ActiveAgents(status) == {a \in Agents : status[a] = "active"}

\* GET /leaderboard/benchmark/compare; limit is the query parameter of the
\* request, kept with the response
get_benchmark_comparison(limit, agents) ==
    LET entries == SortByBrier(BenchmarkEntries(forecasts, agents))
        listed == SliceTo(entries, limit)
    IN  /\ out' = [kind |-> "benchmark", status |-> 200, limit |-> limit,
                   total_agents |-> Len(entries),
                   total_resolved_forecasts |->
                       SumOf([i \in DOMAIN entries |-> entries[i].resolved_forecasts],
                             DOMAIN entries),
                   rankings |-> [i \in DOMAIN listed |->
                                   [rank |-> i,
                                    agent_id |-> listed[i].agent_id,
                                    brier_score |-> listed[i].brier_score,
                                    resolved_forecasts |-> listed[i].resolved_forecasts]]]
        /\ UNCHANGED <<markets, forecasts, wl, rl, ms, agent_status, timesScored>>

----------------------------------------------------------------------------
(* Calibration *)

\* None where the other values are fractions
None == <<>>

\* |x - y| on fractions
FracAbsDiff(x, y) ==
    LET d == x[1] * y[2] - y[1] * x[2]
    IN  Frac(IF d < 0 THEN 0 - d ELSE d, x[2] * y[2])

FracAdd(x, y) == Frac(x[1] * y[2] + y[1] * x[2], x[2] * y[2])

\* int(prob * 10) for a probability in percent: truncation toward zero
IntTimes10(prob) == IF prob >= 0 THEN prob \div 10 ELSE 0 - ((0 - prob) \div 10)

BucketIdx_NoCap(prob) == IntTimes10(prob)

\* bucket_idx = min(int(prob * 10), 9)
BucketIdx(prob) == Min(IntTimes10(prob), 9)

\* buckets[i]: the forecasts assigned to bucket i, in input order
BucketOf(forecast_list, i) ==
    SelectSeq(forecast_list, LAMBDA f : BucketIdx(f.probability) = i)

\* the result of one non-empty bucket; rates and means in percent
BucketResult(i, bucket) ==
    LET n == Len(bucket)
        mean_forecast ==
            Frac(SumOf([k \in DOMAIN bucket |-> bucket[k].probability], DOMAIN bucket), n)
        actual_rate ==
            Frac(100 * Cardinality({k \in DOMAIN bucket : bucket[k].outcome = "yes"}), n)
    IN  [bucket_min |-> 10 * i,
         bucket_max |-> 10 * (i + 1),
         count |-> n,
         mean_forecast |-> mean_forecast,
         actual_resolution_rate |-> actual_rate,
         calibration_error |-> FracAbsDiff(mean_forecast, actual_rate)]

\* the loop over the buckets i, i + 1, ..., 9: empty buckets are skipped
RECURSIVE BucketResults(_, _)
BucketResults(forecast_list, i) ==
    IF i > 9 THEN <<>>
    ELSE (IF BucketOf(forecast_list, i) = <<>> THEN <<>>
          ELSE <<BucketResult(i, BucketOf(forecast_list, i))>>)
         \o BucketResults(forecast_list, i + 1)

\* total_error: the sum of calibration_error * n over the results
RECURSIVE TotalError(_)
TotalError(bucket_results) ==
    IF bucket_results = <<>> THEN <<0, 1>>
    ELSE FracAdd(Frac(Head(bucket_results).calibration_error[1] * Head(bucket_results).count,
                      Head(bucket_results).calibration_error[2]),
                 TotalError(Tail(bucket_results)))

calculate_calibration_error(forecast_list) ==
    LET bucket_results == BucketResults(forecast_list, 0)
        total_forecasts ==
            SumOf([k \in DOMAIN bucket_results |-> bucket_results[k].count],
                  DOMAIN bucket_results)
        total_error == TotalError(bucket_results)
    IN  [mean_calibration_error |->
             IF total_forecasts > 0
             THEN Frac(total_error[1], total_error[2] * total_forecasts)
             ELSE <<0, 1>>,
         bucket_results |-> bucket_results]

\* get_agent_calibration: the select of the agent's scored forecasts
CalibrationIds(fs, agent_id) ==
    {k \in DOMAIN fs : /\ fs[k].agent_id = agent_id
                       /\ fs[k].brier_score # NULL
                       /\ fs[k].outcome # "null"}

\* the analysis of the selected rows
CalibrationOf(fs, agent_id, rows) ==
    LET forecast_data == [i \in DOMAIN rows |->
                            [probability |-> fs[rows[i]].probability,
                             outcome |-> fs[rows[i]].outcome]]
        c == calculate_calibration_error(forecast_data)
    IN  [agent_id |-> agent_id,
         total_resolved_forecasts |-> Len(rows),
         average_brier_score |->
             Frac(SumOf([i \in DOMAIN rows |-> fs[rows[i]].brier_score], DOMAIN rows),
                  Len(rows)),
         calibration_error |-> c.mean_calibration_error,
         buckets |-> c.bucket_results]

get_agent_calibration_NoEmptyCase(fs, agent_id, rows) ==
    IF rows = <<>>
    THEN [agent_id |-> agent_id,
          total_resolved_forecasts |-> 0,
          calibration_error |-> calculate_calibration_error(<<>>).mean_calibration_error,
          buckets |-> <<>>]
    ELSE CalibrationOf(fs, agent_id, rows)

\* rows: the selected forecasts in the order the select returned them
get_agent_calibration(fs, agent_id, rows) ==
    IF rows = <<>>
    THEN [agent_id |-> agent_id,
          total_resolved_forecasts |-> 0,
          calibration_error |-> None,
          buckets |-> <<>>]
    ELSE CalibrationOf(fs, agent_id, rows)

\* the path parameter agent_id: any string, registered or not
AgentIds == Agents \cup {"ghost"}

\* GET /leaderboard/calibration/{agent_id}
get_calibration(agent_id, rows) ==
    LET calibration == get_agent_calibration(forecasts, agent_id, rows)
    IN  /\ out' = [kind |-> "calibration", status |-> 200,
                   agent_id |-> calibration.agent_id,
                   total_resolved_forecasts |-> calibration.total_resolved_forecasts,
                   average_brier_score |->
                       IF "average_brier_score" \in DOMAIN calibration
                       THEN calibration.average_brier_score ELSE None,
                   calibration_error |-> calibration.calibration_error,
                   buckets |-> calibration.buckets]
        /\ UNCHANGED <<markets, forecasts, wl, rl, ms, agent_status, timesScored>>

----------------------------------------------------------------------------
(* Market price comparison and agent statistics *)

\* get_market_price_comparison: the select of the agent's scored forecasts
\* with a recorded market price
ComparableIds(fs, agent_id) ==
    {k \in DOMAIN fs : /\ fs[k].agent_id = agent_id
                       /\ fs[k].brier_score # NULL
                       /\ fs[k].market_price_at_forecast # NULL}

\* (f.market_price_at_forecast - (1.0 if f.outcome else 0.0)) ** 2
MarketBrier(f) ==
    LET outcome_value == IF f.outcome = "yes" THEN 100 ELSE 0
    IN  (f.market_price_at_forecast - outcome_value)
            * (f.market_price_at_forecast - outcome_value)

BeatsMarket_OrEqual(f) == f.brier_score <= MarketBrier(f)

\* if f.brier_score < market_brier
BeatsMarket(f) == f.brier_score < MarketBrier(f)

get_market_price_comparison(fs, agent_id) ==
    LET ids == ComparableIds(fs, agent_id)
        beat_market == Cardinality({k \in ids : BeatsMarket(fs[k])})
    IN  IF ids = {}
        THEN [agent_id |-> agent_id, total_comparable |-> 0,
              beat_market_count |-> 0, beat_market_rate |-> None]
        ELSE [agent_id |-> agent_id,
              total_comparable |-> Cardinality(ids),
              beat_market_count |-> beat_market,
              beat_market_rate |-> Frac(beat_market, Cardinality(ids)),
              average_agent_brier |->
                  Frac(SumOf([k \in ids |-> fs[k].brier_score], ids), Cardinality(ids)),
              average_market_brier |->
                  Frac(SumOf([k \in ids |-> MarketBrier(fs[k])], ids), Cardinality(ids))]

\* GET /leaderboard/benchmark/market-comparison/{agent_id}
get_agent_market_comparison(agent_id) ==
    LET comparison == get_market_price_comparison(forecasts, agent_id)
    IN  /\ out' = [kind |-> "market_comparison", status |-> 200,
                   agent_id |-> comparison.agent_id,
                   total_comparable |-> comparison.total_comparable,
                   beat_market_count |-> comparison.beat_market_count,
                   beat_market_rate |-> comparison.beat_market_rate,
                   average_agent_brier |->
                       IF "average_agent_brier" \in DOMAIN comparison
                       THEN comparison.average_agent_brier ELSE None,
                   average_market_brier |->
                       IF "average_market_brier" \in DOMAIN comparison
                       THEN comparison.average_market_brier ELSE None]
        /\ UNCHANGED <<markets, forecasts, wl, rl, ms, agent_status, timesScored>>

\* GET /agents/{agent_id}/stats, the forecasting part; every agent of Agents
\* is registered
get_agent_stats(agent_id) ==
    LET mine == {k \in DOMAIN forecasts : forecasts[k].agent_id = agent_id}
        resolved_forecasts == {k \in mine : forecasts[k].outcome # "null"}
        correct_forecasts ==
            {k \in resolved_forecasts :
                \/ forecasts[k].probability >= 50 /\ forecasts[k].outcome = "yes"
                \/ forecasts[k].probability < 50 /\ forecasts[k].outcome # "yes"}
        \* sum(f.brier_score for f in resolved_forecasts if f.brier_score)
        counted == {k \in resolved_forecasts :
                      forecasts[k].brier_score # NULL /\ forecasts[k].brier_score # 0}
    IN  /\ out' = IF agent_id \notin Agents
                  THEN [kind |-> "stats", status |-> 404, agent_id |-> agent_id]
                  ELSE [kind |-> "stats", status |-> 200, agent_id |-> agent_id,
                        total_forecasts |-> Cardinality(mine),
                        resolved_forecasts |-> Cardinality(resolved_forecasts),
                        accuracy |->
                            IF resolved_forecasts = {} THEN None
                            ELSE Frac(Cardinality(correct_forecasts),
                                      Cardinality(resolved_forecasts)),
                        brier_score |->
                            IF resolved_forecasts = {} THEN None
                            ELSE Frac(SumOf([k \in counted |-> forecasts[k].brier_score],
                                            counted),
                                      Cardinality(resolved_forecasts))]
        /\ UNCHANGED <<markets, forecasts, wl, rl, ms, agent_status, timesScored>>

----------------------------------------------------------------------------
(* Request validation *)

ForecastCreate_Lenient(body) == TRUE

\* ForecastCreate accepts the body: probability ge 0.0 and le 1.0,
\* confidence matching ^(high|medium|low)$
ForecastCreate(body) ==
    /\ body.probability >= 0
    /\ body.probability <= 100
    /\ body.confidence \in {"high", "medium", "low"}

\* POST /forecasts/: a body that ForecastCreate refuses is answered with 422
\* before the handler runs
submit_forecast(r, a, m, body) ==
    IF ForecastCreate(body)
    THEN /\ SubmitLookup(r, a, m, body)
         /\ out' = NoOut
         /\ UNCHANGED agent_status
    ELSE /\ rl[r].pc = "idle"
         /\ out' = [kind |-> "validation", status |-> 422, body |-> body]
         /\ UNCHANGED <<markets, forecasts, wl, rl, ms, agent_status, timesScored>>

----------------------------------------------------------------------------
(* Authentication: get_challenge and login *)

\* the lifetime of a challenge: the clock counts in units of five minutes
ChallengeTTL == 1

\* the last reading of the clock: a challenge issued at 0 has expired
MaxTime == ChallengeTTL + 1

Logins == {"l1", "l2"}

\* a challenge is identified by its nonce, which no other challenge has: the
\* nonce of a challenge is its number in the order of issue, and its message
\* is the one message that embeds this nonce
NoChallenge == [nonce |-> 0, expires_at |-> 0]
\* a login slot keeps the agent of the request it handled last and the
\* status it answered; turn flips with every answer
LIdle == [pc |-> "idle", agent_id |-> "none", nonce |-> 0, status |-> 0, turn |-> 0]

InitAuth ==
    /\ challenges = [a \in Agents |-> NoChallenge]
    /\ now = 0
    /\ ll = [l \in Logins |-> LIdle]
    /\ logins = <<>>

\* the clock advances
Tock ==
    /\ now < MaxTime
    /\ now' = now + 1
    /\ UNCHANGED <<challenges, ll, logins>>
    /\ UNCHANGED <<markets, forecasts, wl, rl, ms, agent_status, out, timesScored>>

\* the entries of the store that get_challenge leaves after its cleanup
Unexpired(store) ==
    [a \in Agents |-> IF store[a] # NoChallenge /\ store[a].expires_at < now
                      THEN NoChallenge
                      ELSE store[a]]

\* GET /auth/challenge/{agent_id} of a registered agent: the statements after
\* the agent select run without an await
get_challenge(agent_id) ==
    LET nonce == Len(logins) + 1
        stored == [challenges EXCEPT
                       ![agent_id] = [nonce |-> nonce, expires_at |-> now + ChallengeTTL]]
    IN  /\ nonce <= MaxChallenges
        /\ challenges' = Unexpired(stored)
        /\ logins' = Append(logins, [agent_id |-> agent_id, tokens |-> 0])
        /\ UNCHANGED <<now, ll>>
        /\ UNCHANGED <<markets, forecasts, wl, rl, ms, agent_status, out, timesScored>>

Responds(l, agent_id, status) ==
    ll' = [ll EXCEPT ![l] = [pc |-> "idle", agent_id |-> agent_id, nonce |-> 0,
                             status |-> status, turn |-> 1 - ll[l].turn]]

\* POST /auth/login up to its first await: the request carries the message of
\* challenge nonce and a signature that verifies against the agent's wallet
\* (signed) or does not
login(l, agent_id, nonce, signed) ==
    LET challenge == challenges[agent_id]
    IN  /\ ll[l].pc = "idle"
        /\ IF challenge = NoChallenge
           THEN Responds(l, agent_id, 400) /\ UNCHANGED challenges
           ELSE IF now > challenge.expires_at
           THEN /\ challenges' = [challenges EXCEPT ![agent_id] = NoChallenge]
                /\ Responds(l, agent_id, 400)
           ELSE IF nonce # challenge.nonce
           THEN Responds(l, agent_id, 400) /\ UNCHANGED challenges
           ELSE IF ~signed
           THEN Responds(l, agent_id, 401) /\ UNCHANGED challenges
           ELSE /\ ll' = [ll EXCEPT ![l] = [pc |-> "select", agent_id |-> agent_id,
                                            nonce |-> nonce, status |-> 0,
                                            turn |-> ll[l].turn]]
                /\ UNCHANGED challenges
        /\ UNCHANGED <<now, logins>>
        /\ UNCHANGED <<markets, forecasts, wl, rl, ms, agent_status, out, timesScored>>

\* POST /auth/login after the agent select (the agents are registered and
\* none is banned): the token is created, the
\* agent's entry is deleted from the store (a KeyError when there is none),
\* last_active_at is committed and the token is returned
LoginIssue(l) ==
    LET agent_id == ll[l].agent_id
    IN  /\ ll[l].pc = "select"
        /\ IF challenges[agent_id] = NoChallenge
           THEN Responds(l, agent_id, 500) /\ UNCHANGED <<challenges, logins>>
           ELSE /\ challenges' = [challenges EXCEPT ![agent_id] = NoChallenge]
                /\ \/ /\ Responds(l, agent_id, 200)
                      /\ logins' = [logins EXCEPT ![ll[l].nonce].tokens = @ + 1]
                   \/ /\ Responds(l, agent_id, 500) \* the commit raises
                      /\ UNCHANGED logins
        /\ UNCHANGED now
        /\ UNCHANGED <<markets, forecasts, wl, rl, ms, agent_status, out, timesScored>>

----------------------------------------------------------------------------
(* Observers *)

NoCall == [market_id |-> "none", outcome |-> "null", n |-> 0]

\* a step of ScoreWrite(w) in which score_forecasts_for_market returns
Returns(w) == wl[w].pc = "score_write" /\ wl'[w].pc # "except"

\* lastCall: market and outcome of the latest returned call; n is 2 when the
\* returned call before it, with no forecast created in between, had the same
\* market and outcome
Calls ==
    lastCall' =
        IF \E w \in Workers : Returns(w)
        THEN LET w == CHOOSE x \in Workers : Returns(x)
             IN  [market_id |-> wl[w].market_id, outcome |-> wl[w].outcome,
                  n |-> IF /\ lastCall.market_id = wl[w].market_id
                           /\ lastCall.outcome = wl[w].outcome
                        THEN 2 ELSE 1]
        ELSE IF Len(forecasts') > Len(forecasts) THEN NoCall
        ELSE lastCall

\* wrote[w]: sync_resolved_markets of worker w has committed a change since
\* its tick began; kept until the worker sleeps again
Ticks ==
    wrote' = [w \in Workers |->
                IF wl'[w].pc = "sleep" THEN FALSE
                ELSE IF /\ wl'[w] # wl[w]
                        /\ wl[w].pc \in {"sync", "score_write"}
                        /\ (markets' # markets \/ forecasts' # forecasts)
                     THEN wl[w].pc = "sync" \/ wl[w].caller = "sync" \/ wrote[w]
                ELSE wrote[w]]

NoRetry == [market_id |-> "none", pending |-> {}, done |-> FALSE]

\* a step in which the running call of score_forecasts_for_market raises
PassFails(w) ==
    wl[w].pc \in {"score_read", "score_write"} /\ wl'[w].pc = "except"

\* retry: the market of the latest failed pass, the forecasts that were
\* unscored when it failed, and whether a later call for the market has returned
Retries ==
    retry' =
        IF \E w \in Workers : PassFails(w)
        THEN LET w == CHOOSE x \in Workers : PassFails(x)
             IN  [market_id |-> wl[w].market_id,
                  pending |-> {k \in DOMAIN forecasts :
                                 /\ forecasts[k].market_id = wl[w].market_id
                                 /\ forecasts[k].brier_score = NULL},
                  done |-> FALSE]
        ELSE IF \E w \in Workers : Returns(w) /\ wl[w].market_id = retry.market_id
        THEN [retry EXCEPT !.done = TRUE]
        ELSE retry

\* a step in which the commit of submit_forecast succeeds
Commits(r) ==
    rl[r].pc \in {"update", "insert"} /\ rl'[r].pc \in {"updated", "created"}

\* some worker is between the fetch of the feed and the end of its cycle
CycleRunning == \E w \in Workers : wl[w].pc # "sleep"

\* subs[k]: the first and the latest probability submitted for row k, as the
\* requests carried them, whether there was more than one submission, and
\* whether the latest one was committed during the worker cycle that is still
\* running
Submits ==
    subs' =
        IF \E r \in Requests : Commits(r)
        THEN LET r == CHOOSE x \in Requests : Commits(x)
             IN  IF rl[r].pc = "insert"
                 THEN Append(subs, [first |-> rl[r].probability,
                                    last |-> rl[r].probability, again |-> FALSE,
                                    during |-> CycleRunning])
                 ELSE [subs EXCEPT ![rl[r].existing] =
                         [@ EXCEPT !.last = rl[r].probability, !.again = TRUE,
                                   !.during = CycleRunning]]
        ELSE IF \A w \in Workers : wl'[w].pc = "sleep"
        THEN [k \in DOMAIN subs |-> [subs[k] EXCEPT !.during = FALSE]]
        ELSE subs

\* the market m is stored as resolved with an outcome, in table mk
StoredResolved(mk, m) ==
    mk[m].exists /\ mk[m].resolved /\ mk[m].resolution_outcome # "null"

NoTick == [valid |-> {}, read |-> {}, late |-> {}]

\* tick[w]: since worker w fetched the feed, the markets that passed the
\* filter of sync_resolved_markets (valid), the forecasts that existed for
\* the market of a call of score_forecasts_for_market when the call made its
\* select (read), and the forecasts that the sync scored on a market that was
\* stored as resolved before (late)
Batch ==
    tick' = [w \in Workers |->
               IF wl[w].pc = "sleep" THEN NoTick
               ELSE IF wl[w].pc = "sync" /\ wl'[w].pc = "score_read"
               THEN [tick[w] EXCEPT !.valid = @ \cup {wl'[w].market_id}]
               ELSE IF /\ wl[w].pc = "score_read"
                       /\ wl'[w].pc = "score_write"
                       /\ wl[w].caller = "sync"
               THEN [tick[w] EXCEPT
                       !.read = @ \cup AllIdsOfMarket(forecasts, wl[w].market_id)]
               ELSE IF /\ wl[w].pc = "score_write"
                       /\ wl'[w].pc = "sync"
               THEN [tick[w] EXCEPT
                       !.late = @ \cup {k \in wl[w].result :
                                          StoredResolved(markets, forecasts[k].market_id)}]
               ELSE tick[w]]

----------------------------------------------------------------------------
(* Specifications *)

UnresolvedMarket(price) ==
    [exists |-> TRUE, yes_price |-> price, resolved |-> FALSE,
     resolution_outcome |-> "null"]

\* the market cache holds m1, unresolved (as left by an active-market sync),
\* the other markets are not cached yet, and no forecast has been submitted
Init ==
    /\ markets = [m \in Markets |->
                    IF m = "m1" THEN UnresolvedMarket(40) ELSE NoMarket]
    /\ forecasts = <<>>
    /\ wl = [w \in Workers |-> WIdle]
    /\ rl = [r \in Requests |-> RIdle]
    /\ ms = MSIdle
    /\ lastCall = NoCall
    /\ wrote = [w \in Workers |-> FALSE]
    /\ agent_status = [a \in Agents |-> "active"]
    /\ out = NoOut
    /\ retry = NoRetry
    /\ subs = <<>>
    /\ tick = [w \in Workers |-> NoTick]
    /\ InitAuth
    /\ timesScored = <<>>

Feed == RawEntries(Markets, {40})

FeedM1 == RawEntries({"m1"}, {40})

\* well-formed entries of resolved markets
FeedResolved ==
    {m \in RawEntries(Markets, {40}) :
        m.resolved /\ m.resolution \in {"YES", "no"} /\ m.endDate = "iso"}

FeedResolvedM1 == {m \in FeedResolved : m.id = "m1"}

TwoProbs ==
    {[probability |-> 30, confidence |-> "high", reasoning |-> "t1"],
     [probability |-> 80, confidence |-> "high", reasoning |-> "t1"]}

OneProb == {[probability |-> 30, confidence |-> "high", reasoning |-> "t1"]}

\* the steps of a cycle after the fetch
WorkerRuns(w, feed) ==
    \/ \E market \in feed : SyncMarket(w, market)
    \/ ScoreRead(w)
    \/ ScoreWrite(w)
    \/ SyncFinish(w)
    \/ BackfillStart(w)
    \/ \E market \in wl[w].todo : BackfillCheck(w, market)
    \/ BackfillFinish(w)
    \/ StorageFailure(w)
    \/ WorkerExcept(w)
    \/ WorkerSleep(w)

\* Spec: one resolution worker and one request handler, interleaved at their
\* statements; two agents forecast market m1
Next ==
    \/ FetchFails("w1") /\ Ticks /\ UNCHANGED <<lastCall, retry, subs, tick, queries>>
    \/ FetchResolved("w1") /\ Ticks /\ UNCHANGED <<lastCall, retry, subs, tick, queries>>
    \/ WorkerRuns("w1", FeedM1) /\ Ticks /\ UNCHANGED <<lastCall, retry, subs, tick, queries>>
    \/ /\ \E a \in Agents, d \in TwoProbs : SubmitLookup("r1", a, "m1", d)
       /\ UNCHANGED obs
    \/ SubmitCommit("r1") /\ UNCHANGED obs
    \/ SubmitRespond("r1") /\ UNCHANGED obs

Spec == Init /\ [][Next]_vars

\* SpecSeq: every handler and every worker cycle runs to completion before
\* the next one starts; a1 forecasts both markets, a2 forecasts m1
Pairs == {[a |-> "a1", m |-> "m1"], [a |-> "a2", m |-> "m1"], [a |-> "a1", m |-> "m2"]}

Quiescent ==
    /\ \A w \in Workers : wl[w].pc = "sleep"
    /\ \A r \in Requests : rl[r].pc = "idle"
    /\ ms.pc = "idle"

NextSeq ==
    \/ Quiescent /\ FetchFails("w1") /\ UNCHANGED obs
    \/ Quiescent /\ FetchResolved("w1") /\ UNCHANGED obs
    \/ WorkerRuns("w1", FeedResolved) /\ UNCHANGED obs
    \/ /\ Quiescent
       /\ \E am \in Pairs, d \in Payloads : SubmitLookup("r1", am.a, am.m, d)
       /\ UNCHANGED obs
    \/ SubmitCommit("r1") /\ UNCHANGED obs
    \/ SubmitRespond("r1") /\ UNCHANGED obs

SpecSeq == Init /\ [][NextSeq]_vars

\* SpecCalls: as SpecSeq, one agent, with the calls of
\* score_forecasts_for_market observed
NextCalls ==
    \/ Quiescent /\ FetchFails("w1") /\ Calls /\ UNCHANGED <<wrote, retry, subs, tick, queries>>
    \/ Quiescent /\ FetchResolved("w1") /\ Calls /\ UNCHANGED <<wrote, retry, subs, tick, queries>>
    \/ WorkerRuns("w1", Feed) /\ Calls /\ UNCHANGED <<wrote, retry, subs, tick, queries>>
    \/ /\ Quiescent
       /\ \E m \in Markets, d \in TwoProbs : SubmitLookup("r1", "a1", m, d)
       /\ Calls /\ UNCHANGED <<wrote, retry, subs, tick, queries>>
    \/ SubmitCommit("r1") /\ Calls /\ UNCHANGED <<wrote, retry, subs, tick, queries>>
    \/ SubmitRespond("r1") /\ Calls /\ UNCHANGED <<wrote, retry, subs, tick, queries>>

SpecCalls == Init /\ [][NextCalls]_vars

\* SpecRetry: as SpecSeq, two agents on market m1, with the failed passes of
\* score_forecasts_for_market observed
NextRetry ==
    \/ Quiescent /\ FetchFails("w1") /\ Retries /\ UNCHANGED <<lastCall, wrote, subs, tick, queries>>
    \/ Quiescent /\ FetchResolved("w1") /\ Retries /\ UNCHANGED <<lastCall, wrote, subs, tick, queries>>
    \/ WorkerRuns("w1", FeedM1) /\ Retries /\ UNCHANGED <<lastCall, wrote, subs, tick, queries>>
    \/ /\ Quiescent
       /\ \E a \in Agents, d \in TwoProbs : SubmitLookup("r1", a, "m1", d)
       /\ Retries /\ UNCHANGED <<lastCall, wrote, subs, tick, queries>>
    \/ SubmitCommit("r1") /\ Retries /\ UNCHANGED <<lastCall, wrote, subs, tick, queries>>
    \/ SubmitRespond("r1") /\ Retries /\ UNCHANGED <<lastCall, wrote, subs, tick, queries>>

SpecRetry == Init /\ [][NextRetry]_vars

\* SpecSubs: one resolution worker and one request handler, interleaved at
\* their statements, one agent on market m1, with the submitted probabilities
\* observed
NextSubs ==
    \/ FetchFails("w1") /\ Submits /\ UNCHANGED <<lastCall, wrote, retry, tick, queries>>
    \/ FetchResolved("w1") /\ Submits /\ UNCHANGED <<lastCall, wrote, retry, tick, queries>>
    \/ WorkerRuns("w1", FeedResolvedM1) /\ Submits /\ UNCHANGED <<lastCall, wrote, retry, tick, queries>>
    \/ /\ \E d \in TwoProbs : SubmitLookup("r1", "a1", "m1", d)
       /\ Submits /\ UNCHANGED <<lastCall, wrote, retry, tick, queries>>
    \/ SubmitCommit("r1") /\ Submits /\ UNCHANGED <<lastCall, wrote, retry, tick, queries>>
    \/ SubmitRespond("r1") /\ Submits /\ UNCHANGED <<lastCall, wrote, retry, tick, queries>>

SpecSubs == Init /\ [][NextSubs]_vars

\* SpecQueries: as SpecSeq with a feed that resolves m1 only, and with the
\* read-only routes called between the
\* handlers and the worker cycles; out holds a response for one step
Waiting == out' = NoOut /\ UNCHANGED <<agent_status, lastCall, wrote, retry, subs, tick, auth>>

Answering == UNCHANGED <<lastCall, wrote, retry, subs, tick, auth>>

NextQueries ==
    \/ Quiescent /\ FetchFails("w1") /\ Waiting
    \/ Quiescent /\ FetchResolved("w1") /\ Waiting
    \/ WorkerRuns("w1", FeedResolvedM1) /\ Waiting
    \/ /\ Quiescent
       /\ \E am \in Pairs, d \in TwoProbs : SubmitLookup("r1", am.a, am.m, d)
       /\ Waiting
    \/ SubmitCommit("r1") /\ Waiting
    \/ SubmitRespond("r1") /\ Waiting
    \/ /\ Quiescent
       /\ \E m \in Markets, weighted \in BOOLEAN : get_consensus(m, weighted)
       /\ Answering

SpecQueries == Init /\ [][NextQueries]_vars

\* the leaderboard routes and the agents' pause and resume between
\* submissions and cycles that run one at a time
NextBoard ==
    \/ Quiescent /\ FetchFails("w1") /\ Waiting
    \/ Quiescent /\ FetchResolved("w1") /\ Waiting
    \/ WorkerRuns("w1", FeedResolved) /\ Waiting
    \/ /\ Quiescent
       /\ \E am \in Pairs, d \in OneProb : SubmitLookup("r1", am.a, am.m, d)
       /\ Waiting
    \/ SubmitCommit("r1") /\ Waiting
    \/ SubmitRespond("r1") /\ Waiting
    \/ /\ Quiescent
       /\ \E limit \in Limits, agents \in Orders(ActiveAgents(agent_status)) :
              get_benchmark_comparison(limit, agents)
       /\ Answering
    \/ /\ Quiescent
       /\ \E agent_id \in AgentIds :
              \E rows \in Orders(CalibrationIds(forecasts, agent_id)) :
                  get_calibration(agent_id, rows)
       /\ Answering
    \/ Quiescent /\ (\E a \in Agents : pause_agent(a)) /\ Answering
    \/ Quiescent /\ (\E a \in Agents : resume_agent(a)) /\ Answering

SpecBoard == Init /\ [][NextBoard]_vars

\* longest forecast list handed to the calibration primitive
MaxInputs == 2

\* probabilities in percent handed to the primitives; the Brier primitive
\* also gets values outside [0, 1]
CalibrationProbs == {0, 9, 10, 95, 100}

BrierProbs == {-20, 0, 30, 100, 150}

ForecastLists ==
    UNION {[1..n -> [probability : CalibrationProbs, outcome : {"yes", "no"}]] :
             n \in 0..MaxInputs}

\* a call of a scoring primitive and its arguments
PrimitiveCalls ==
    {[kind |-> "call", fn |-> "calculate_brier_score", probability |-> p, outcome |-> o] :
        p \in BrierProbs, o \in {"yes", "no"}}
    \cup {[kind |-> "call", fn |-> "calculate_calibration_error", forecasts |-> l] :
            l \in ForecastLists}

InitPrimitives ==
    /\ markets = [m \in Markets |-> NoMarket]
    /\ forecasts = <<>>
    /\ wl = [w \in Workers |-> WIdle]
    /\ rl = [r \in Requests |-> RIdle]
    /\ ms = MSIdle
    /\ lastCall = NoCall
    /\ wrote = [w \in Workers |-> FALSE]
    /\ agent_status = [a \in Agents |-> "active"]
    /\ out \in PrimitiveCalls
    /\ retry = NoRetry
    /\ subs = <<>>
    /\ tick = [w \in Workers |-> NoTick]
    /\ InitAuth
    /\ timesScored = <<>>

\* the call returns what the function computes
BrierReturns ==
    /\ out.kind = "call"
    /\ out.fn = "calculate_brier_score"
    /\ out' = [kind |-> "returned", fn |-> out.fn,
               probability |-> out.probability, outcome |-> out.outcome,
               value |-> calculate_brier_score(out.probability, out.outcome)]
    /\ UNCHANGED <<markets, forecasts, wl, rl, ms, agent_status, timesScored>>

CalibrationReturns ==
    /\ out.kind = "call"
    /\ out.fn = "calculate_calibration_error"
    /\ out' = [kind |-> "returned", fn |-> out.fn, forecasts |-> out.forecasts,
               mean_calibration_error |->
                   calculate_calibration_error(out.forecasts).mean_calibration_error,
               bucket_results |-> calculate_calibration_error(out.forecasts).bucket_results]
    /\ UNCHANGED <<markets, forecasts, wl, rl, ms, agent_status, timesScored>>

NextPrimitives ==
    \/ BrierReturns /\ Answering
    \/ CalibrationReturns /\ Answering

SpecPrimitives == InitPrimitives /\ [][NextPrimitives]_vars

\* request bodies, accepted and refused ones
RawBodies ==
    {[probability |-> 0, confidence |-> "low", reasoning |-> "t1"],
     [probability |-> 100, confidence |-> "medium", reasoning |-> "t1"],
     [probability |-> 150, confidence |-> "high", reasoning |-> "t1"],
     [probability |-> -10, confidence |-> "high", reasoning |-> "t1"],
     [probability |-> 30, confidence |-> "certain", reasoning |-> "t1"]}

\* concurrent submissions of any body
NextBodies ==
    \/ /\ \E r \in Requests, am \in Pairs, body \in RawBodies :
              submit_forecast(r, am.a, am.m, body)
       /\ Answering
    \/ (\E r \in Requests : SubmitCommit(r)) /\ Waiting
    \/ (\E r \in Requests : SubmitRespond(r)) /\ Waiting

SpecBodies == Init /\ [][NextBodies]_vars

\* the values of outcome and brier_score that the columns of a row admit:
\* both are nullable, each on its own
Scorings(p) ==
    {[outcome |-> "null", brier_score |-> NULL],
     [outcome |-> "yes", brier_score |-> calculate_brier_score(p, "yes")],
     [outcome |-> "no", brier_score |-> calculate_brier_score(p, "no")],
     [outcome |-> "null", brier_score |-> calculate_brier_score(p, "no")],
     [outcome |-> "yes", brier_score |-> NULL]}

\* the pair of the k-th row of a table: a1 on m1, a1 on m2, a2 on m1, ...
PairOfRow(k) ==
    [a |-> IF k <= 2 THEN "a1" ELSE "a2", m |-> IF k % 2 = 1 THEN "m1" ELSE "m2"]

\* the rows the schema admits for the pair of row k
RowsOf(k) ==
    UNION {{[ForecastRow(PairOfRow(k).a, PairOfRow(k).m, p, "high", "t1", price)
               EXCEPT !.outcome = sc.outcome, !.brier_score = sc.brier_score] :
               price \in {40, NULL}, sc \in Scorings(p)} : p \in {30, 40}}

\* contents of the forecasts table, one row per pair
Tables ==
    UNION {{t \in [1..n -> UNION {RowsOf(k) : k \in 1..n}] :
              \A k \in 1..n : t[k] \in RowsOf(k)} : n \in 0..MaxForecasts}

InitTable ==
    /\ markets = [m \in Markets |->
                    IF m = "m1" THEN UnresolvedMarket(40) ELSE NoMarket]
    /\ forecasts \in Tables
    /\ wl = [w \in Workers |-> WIdle]
    /\ rl = [r \in Requests |-> RIdle]
    /\ ms = MSIdle
    /\ lastCall = NoCall
    /\ wrote = [w \in Workers |-> FALSE]
    /\ agent_status = [a \in Agents |-> "active"]
    /\ out = NoOut
    /\ retry = NoRetry
    /\ subs = <<>>
    /\ tick = [w \in Workers |-> NoTick]
    /\ InitAuth
    /\ timesScored = <<>>

\* the read queries, one on each table
NextTable ==
    \/ /\ out = NoOut
       /\ \E agent_id \in AgentIds :
              \E rows \in Orders(CalibrationIds(forecasts, agent_id)) :
                  get_calibration(agent_id, rows)
       /\ Answering
    \/ /\ out = NoOut
       /\ \E agent_id \in AgentIds : get_agent_market_comparison(agent_id)
       /\ Answering
    \/ /\ out = NoOut
       /\ \E limit \in Limits, agents \in Orders(ActiveAgents(agent_status)) :
              get_benchmark_comparison(limit, agents)
       /\ Answering
    \/ /\ out = NoOut
       /\ \E agent_id \in AgentIds : get_agent_stats(agent_id)
       /\ Answering

SpecTable == InitTable /\ [][NextTable]_vars

\* resolved entries of both markets, with a valid outcome or without one
FeedTick ==
    {m \in RawEntries(Markets, {40}) :
        m.resolved /\ m.resolution \in {"YES", "maybe"} /\ m.endDate = "iso"}

\* SpecTick: one worker on a feed of both markets and one handler, interleaved
\* at their statements; a1 forecasts both markets, a2 forecasts m1
NextTick ==
    \/ FetchFails("w1") /\ Batch /\ UNCHANGED <<lastCall, wrote, retry, subs, queries>>
    \/ FetchResolved("w1") /\ Batch /\ UNCHANGED <<lastCall, wrote, retry, subs, queries>>
    \/ /\ WorkerRuns("w1", FeedTick)
       /\ Batch /\ UNCHANGED <<lastCall, wrote, retry, subs, queries>>
    \/ /\ \E am \in Pairs, d \in OneProb : SubmitLookup("r1", am.a, am.m, d)
       /\ UNCHANGED obs
    \/ SubmitCommit("r1") /\ UNCHANGED obs
    \/ SubmitRespond("r1") /\ UNCHANGED obs

SpecTick == Init /\ [][NextTick]_vars

\* SpecResubmit: submissions and resubmissions for m1, worker cycles that
\* resolve m1 and active-market syncs that move the prices to 60, one
\* after the other
NextResubmit ==
    \/ Quiescent /\ FetchFails("w1") /\ UNCHANGED obs
    \/ Quiescent /\ FetchResolved("w1") /\ UNCHANGED obs
    \/ WorkerRuns("w1", FeedResolvedM1) /\ UNCHANGED obs
    \/ /\ Quiescent
       /\ \E batch \in [Markets -> {60, NULL}] \ {[m \in Markets |-> NULL]} :
              sync_markets(batch)
       /\ UNCHANGED obs
    \/ ActiveSyncCommit /\ UNCHANGED obs
    \/ /\ Quiescent
       /\ \E a \in Agents, d \in Payloads : SubmitLookup("r1", a, "m1", d)
       /\ UNCHANGED obs
    \/ SubmitCommit("r1") /\ UNCHANGED obs
    \/ SubmitRespond("r1") /\ UNCHANGED obs

SpecResubmit == Init /\ [][NextResubmit]_vars

\* entries with a parseable date
FeedIso == {m \in Feed : m.endDate = "iso"}

\* the active markets move to price 60
ActiveBatches == {b \in MarketBatches : \A m \in Markets : b[m] \in {60, NULL}}

\* SpecMarkets: the resolution worker, the active-market syncs and one agent
\* on market m1, interleaved at their statements
NextMarkets ==
    \/ FetchFails("w1") /\ UNCHANGED obs
    \/ FetchResolved("w1") /\ UNCHANGED obs
    \/ WorkerRuns("w1", FeedIso) /\ UNCHANGED obs
    \/ (\E batch \in ActiveBatches : sync_markets(batch)) /\ UNCHANGED obs
    \/ (\E batch \in ActiveBatches : refresh_markets(batch)) /\ UNCHANGED obs
    \/ (\E batch \in ActiveBatches : sync(batch)) /\ UNCHANGED obs
    \/ ActiveSyncCommit /\ UNCHANGED obs
    \/ (\E d \in OneProb : SubmitLookup("r1", "a1", "m1", d)) /\ UNCHANGED obs
    \/ SubmitCommit("r1") /\ UNCHANGED obs
    \/ SubmitRespond("r1") /\ UNCHANGED obs

SpecMarkets == Init /\ [][NextMarkets]_vars

\* SpecTwo: two resolution workers, each with its own sessions, and one
\* agent on market m1, interleaved at their statements
NextTwo ==
    \/ (\E w \in Workers : FetchFails(w)) /\ UNCHANGED obs
    \/ (\E w \in Workers : FetchResolved(w)) /\ UNCHANGED obs
    \/ (\E w \in Workers : WorkerRuns(w, FeedResolvedM1)) /\ UNCHANGED obs
    \/ (\E d \in OneProb : SubmitLookup("r1", "a1", "m1", d)) /\ UNCHANGED obs
    \/ SubmitCommit("r1") /\ UNCHANGED obs
    \/ SubmitRespond("r1") /\ UNCHANGED obs

SpecTwo == Init /\ [][NextTwo]_vars

\* LiveSpec: one resolution worker whose loop keeps running (every sleep
\* ends, every awaited call returns or raises) and one agent on market m1;
\* nothing is assumed of the feed, of the storage or of the agent
WorkerLive ==
    \/ FetchFails("w1") /\ UNCHANGED obs
    \/ FetchResolved("w1") /\ UNCHANGED obs
    \/ WorkerRuns("w1", FeedResolvedM1) /\ UNCHANGED obs

NextLive ==
    \/ WorkerLive
    \/ (\E a \in Agents, d \in OneProb : SubmitLookup("r1", a, "m1", d)) /\ UNCHANGED obs
    \/ SubmitCommit("r1") /\ UNCHANGED obs
    \/ SubmitRespond("r1") /\ UNCHANGED obs

LiveSpec == Init /\ [][NextLive]_vars /\ WF_vars(WorkerLive)

\* The authentication routes: requests for challenges and login requests of
\* the agents, two of them in flight at a time, while the clock advances.
\* A login request names a challenge message by its nonce.
NextAuth ==
    \/ Tock /\ UNCHANGED <<lastCall, wrote, retry, subs, tick>>
    \/ (\E a \in Agents : get_challenge(a))
       /\ UNCHANGED <<lastCall, wrote, retry, subs, tick>>
    \/ (\E l \in Logins, a \in Agents, n \in 1..MaxChallenges, signed \in BOOLEAN :
            login(l, a, n, signed))
       /\ UNCHANGED <<lastCall, wrote, retry, subs, tick>>
    \/ (\E l \in Logins : LoginIssue(l))
       /\ UNCHANGED <<lastCall, wrote, retry, subs, tick>>

SpecAuth == Init /\ [][NextAuth]_vars

----------------------------------------------------------------------------
(* Claims *)

Scored(k) == forecasts[k].brier_score # NULL

\* C1: in every committed state every forecast has outcome and brier_score
\* both unset or both set.  Checked under Spec.
C1_OutcomeAndBrierPaired ==
    \A k \in DOMAIN forecasts :
        (forecasts[k].outcome = "null") <=> (forecasts[k].brier_score = NULL)

\* a scored forecast next to an unscored one while a request is in flight
C1_Witness ==
    /\ \E k \in DOMAIN forecasts :
          forecasts[k].outcome # "null" /\ forecasts[k].brier_score # NULL
    /\ \E k \in DOMAIN forecasts :
          forecasts[k].outcome = "null" /\ forecasts[k].brier_score = NULL
    /\ rl["r1"].pc = "update"

\* C2: a call of score_forecasts_for_market that returns right after a
\* returned call for the same market and outcome, with no forecast created in
\* between, returns 0 and leaves the forecasts as they are.  Checked under
\* SpecCalls.
C2_SecondCallScoresNothing ==
    [][\A w \in Workers :
          (/\ Returns(w)
           /\ lastCall.market_id = wl[w].market_id
           /\ lastCall.outcome = wl[w].outcome)
          => (forecasts' = forecasts /\ Cardinality(wl[w].result) = 0)]_vars

\* the second call has returned and the market has a scored forecast
C2_Witness ==
    /\ lastCall.n = 2
    /\ \E k \in DOMAIN forecasts :
          forecasts[k].market_id = lastCall.market_id /\ Scored(k)

\* C3: once a forecast is scored, its probability, outcome and brier_score
\* never change.  Checked under SpecSeq.
C3_ScoredIsImmutable ==
    [][\A k \in DOMAIN forecasts :
          Scored(k) =>
             /\ forecasts'[k].probability = forecasts[k].probability
             /\ forecasts'[k].outcome = forecasts[k].outcome
             /\ forecasts'[k].brier_score = forecasts[k].brier_score]_vars

\* C4: with handlers running one after the other there is at most one
\* forecast per (agent, market), and a resubmission overwrites probability,
\* confidence and reasoning of the existing row without adding a row.
\* Checked under SpecSeq.
C4_OnePerPairAndOverwrite ==
    /\ [](\A j, k \in DOMAIN forecasts :
            (/\ forecasts[j].agent_id = forecasts[k].agent_id
             /\ forecasts[j].market_id = forecasts[k].market_id) => j = k)
    /\ [][\A r \in Requests :
            (rl[r].pc = "update" /\ rl'[r].pc = "updated") =>
               /\ Len(forecasts') = Len(forecasts)
               /\ forecasts'[rl[r].existing].probability = rl[r].probability
               /\ forecasts'[rl[r].existing].confidence = rl[r].confidence
               /\ forecasts'[rl[r].existing].reasoning = rl[r].reasoning]_vars

\* a resubmission with another probability has been committed and the pair
\* has one row, which carries the new values
C4_Witness ==
    \E r \in Requests :
        /\ rl[r].pc = "updated"
        /\ rl[r].old.probability # rl[r].probability
        /\ FindExisting(forecasts, rl[r].agent_id, rl[r].market_id) = {rl[r].existing}
        /\ forecasts[rl[r].existing].probability = rl[r].probability
        /\ forecasts[rl[r].existing].confidence = rl[r].confidence
        /\ Len(forecasts) = 2

\* C5: once a market is stored with resolved = true, no step sets resolved
\* back to false or changes its resolution_outcome.  Checked under SpecMarkets.
C5_ResolutionIsMonotone ==
    [][\A m \in Markets :
          markets[m].resolved =>
             /\ markets'[m].resolved
             /\ markets'[m].resolution_outcome = markets[m].resolution_outcome]_vars

\* the resolution sync has handled a feed entry that contradicts the stored
\* outcome of a resolved market whose price the active-market sync has moved
C5_Witness ==
    \E w \in Workers, m \in Markets :
        /\ markets[m].resolved
        /\ markets[m].resolution_outcome = "yes"
        /\ markets[m].yes_price = 60
        /\ wl[w].pc = "score_read"
        /\ wl[w].market_id = m
        /\ wl[w].outcome = "no"
        /\ wl[w].pend[m].op = "none"

\* C6: every market stored with resolved = true has resolution_outcome true or
\* false, and no session holds a resolution write without such an outcome, so
\* a feed entry flagged resolved with an unmappable resolution string stores
\* nothing.  Checked under SpecMarkets.
C6_ResolvedHasOutcome ==
    \A m \in Markets :
        /\ markets[m].resolved =>
              markets[m].exists /\ markets[m].resolution_outcome \in {"yes", "no"}
        /\ \A w \in Workers :
              wl[w].pend[m].op # "none" => wl[w].pend[m].outcome \in {"yes", "no"}

\* an entry flagged resolved has just been dropped by the filter, next to a
\* resolved and an unresolved market
C6_Witness ==
    /\ \E w \in Workers : wl[w].pc = "sync" /\ wl[w].skipped
    /\ \E m \in Markets : markets[m].resolved
    /\ \E m \in Markets : markets[m].exists /\ ~markets[m].resolved

Unscored(k) ==
    /\ k \in DOMAIN forecasts
    /\ forecasts[k].brier_score = NULL
    /\ markets[forecasts[k].market_id].exists
    /\ markets[forecasts[k].market_id].resolved
    /\ markets[forecasts[k].market_id].resolution_outcome # "null"

C8_FailedTickWritesNothing ==
    \A w \in Workers :
        (wl[w].pc = "except" /\ wl[w].cause = "feed") => ~wrote[w]

\* C9: a step in which a pass of score_forecasts_for_market fails changes no
\* forecast and no market; every forecast has outcome and brier_score both
\* unset or both set; and the next call that returns for the market of the
\* failed pass scores exactly the forecasts still unscored, each with
\* (probability - outcome)^2, and returns their number.  Checked under
\* SpecRetry.
C9_FailedPassThenResume ==
    /\ [](\A k \in DOMAIN forecasts :
            (forecasts[k].brier_score = NULL) <=> (forecasts[k].outcome = "null"))
    /\ [][\A w \in Workers :
            /\ PassFails(w) => (forecasts' = forecasts /\ markets' = markets)
            /\ (Returns(w) /\ retry.market_id = wl[w].market_id /\ ~retry.done) =>
                  LET still == {k \in DOMAIN forecasts :
                                  /\ forecasts[k].market_id = wl[w].market_id
                                  /\ forecasts[k].brier_score = NULL}
                      o == IF wl[w].outcome = "yes" THEN 100 ELSE 0
                  IN  /\ Cardinality(wl[w].result) = Cardinality(still)
                      /\ \A k \in DOMAIN forecasts :
                            IF k \in still
                            THEN /\ forecasts'[k].outcome = wl[w].outcome
                                 /\ forecasts'[k].brier_score =
                                       (forecasts[k].probability - o)
                                          * (forecasts[k].probability - o)
                            ELSE forecasts'[k] = forecasts[k]]_vars

\* a pass failed with forecasts unscored, and the next call for the market
\* has scored them
C9_Witness ==
    /\ retry.done
    /\ retry.pending # {}
    /\ \A k \in retry.pending : Scored(k) /\ forecasts[k].outcome # "null"
    /\ \E k \in DOMAIN forecasts : k \notin retry.pending

\* C10: no forecast is counted as newly scored by more than one pass.
\* Checked under SpecTwo.
C10_CountedOnce ==
    \A k \in DOMAIN timesScored : timesScored[k] <= 1

\* C11: a call of score_forecasts_for_market that returns has counted exactly
\* the forecasts of its market that were unscored, has stamped each of them
\* with the given outcome and (probability - outcome)^2, and has left every
\* other forecast, and every other field of the stamped ones, as it was.
\* Checked under SpecSeq.
C11_ScoresExactlyTheUnscored ==
    [][\A w \in Workers :
          Returns(w) =>
             LET unscored == {k \in DOMAIN forecasts :
                                /\ forecasts[k].market_id = wl[w].market_id
                                /\ forecasts[k].brier_score = NULL}
                 o == IF wl[w].outcome = "yes" THEN 100 ELSE 0
             IN  /\ wl'[w].total_scored - wl[w].total_scored = Cardinality(unscored)
                 /\ \A k \in DOMAIN forecasts :
                       IF k \in unscored
                       THEN forecasts'[k] =
                               [forecasts[k] EXCEPT
                                  !.outcome = wl[w].outcome,
                                  !.brier_score = (forecasts[k].probability - o)
                                                     * (forecasts[k].probability - o)]
                       ELSE forecasts'[k] = forecasts[k]]_vars

\* a call has returned 1 with an unscored forecast of another market left
C11_Witness ==
    /\ wl["w1"].pc \in {"sync", "backfill_loop"}
    /\ wl["w1"].total_scored = 1
    /\ \E j, k \in DOMAIN forecasts :
          /\ Scored(k)
          /\ ~Scored(j)
          /\ forecasts[j].market_id # forecasts[k].market_id

\* C12: there is one forecast per agent that submitted and resubmitted for
\* the market one call after the other, and the brier_score a pass writes for
\* a forecast whose latest submission was committed before the worker fetched
\* the resolution is computed from the probability submitted last: 0.3, then
\* 0.8, then a resolution as YES gives 0.04.  Checked under SpecSubs.
C12_ScoredFromLastSubmission ==
    /\ [](\A j, k \in DOMAIN forecasts :
            (/\ forecasts[j].agent_id = forecasts[k].agent_id
             /\ forecasts[j].market_id = forecasts[k].market_id) => j = k)
    /\ [][\A k \in DOMAIN forecasts :
            (/\ forecasts[k].brier_score = NULL
             /\ forecasts'[k].brier_score # NULL
             /\ ~subs[k].during) =>
               LET o == IF forecasts'[k].outcome = "yes" THEN 100 ELSE 0
               IN  /\ forecasts'[k].brier_score = (subs[k].last - o) * (subs[k].last - o)
                   /\ (subs[k].first = 30 /\ subs[k].last = 80 /\ o = 100)
                         => forecasts'[k].brier_score = 400]_vars

\* 0.3 resubmitted as 0.8, resolved YES and scored 0.04, one row for the pair
C12_Witness ==
    \E k \in DOMAIN forecasts :
        /\ subs[k].again
        /\ ~subs[k].during
        /\ subs[k].first = 30
        /\ subs[k].last = 80
        /\ forecasts[k].probability = 80
        /\ forecasts[k].outcome = "yes"
        /\ forecasts[k].brier_score = 400
        /\ FindExisting(forecasts, forecasts[k].agent_id, forecasts[k].market_id) = {k}

\* C13: get_consensus answers 404 without a consensus value for a market
\* that has no forecast, and otherwise answers with a value and with
\* num_forecasters equal to the number of forecasts of the market.  Checked
\* under SpecQueries.
C13_ConsensusNotFoundOrCounted ==
    (out.kind = "consensus") =>
        LET n == Cardinality({k \in DOMAIN forecasts :
                                forecasts[k].market_id = out.market_id})
        IN  IF n = 0
            THEN out.status = 404 /\ "consensus_probability" \notin DOMAIN out
            ELSE /\ out.status = 200
                 /\ "consensus_probability" \in DOMAIN out
                 /\ out.num_forecasters = n

\* a consensus over two forecasts next to a market without forecasts
C13_Witness ==
    /\ out.kind = "consensus"
    /\ out.status = 200
    /\ out.num_forecasters = 2
    /\ \E m \in Markets : \A k \in DOMAIN forecasts : forecasts[k].market_id # m

\* C14: the rankings of get_benchmark_comparison are in non-decreasing order
\* of average Brier score and carry the ranks 1, 2, ..., n in list order.
\* Checked under SpecBoard.
C14_RankingSortedAndNumbered ==
    (out.kind = "benchmark") =>
        \A i \in DOMAIN out.rankings :
            /\ out.rankings[i].rank = i
            /\ \A j \in DOMAIN out.rankings :
                  i < j => ~FracLess(out.rankings[j].brier_score,
                                     out.rankings[i].brier_score)

\* a ranking of two agents with different averages
C14_Witness ==
    /\ out.kind = "benchmark"
    /\ Len(out.rankings) = 2
    /\ out.rankings[1].rank = 1
    /\ FracLess(out.rankings[1].brier_score, out.rankings[2].brier_score)

\* C15: with a limit of at least the number of agents, the rankings list
\* exactly the agents that have a scored forecast, whatever their status.
\* Checked under SpecBoard.
C15_RanksEveryScoredAgent ==
    (out.kind = "benchmark" /\ out.limit >= Cardinality(Agents)) =>
        {out.rankings[i].agent_id : i \in DOMAIN out.rankings}
            = {a \in Agents : \E k \in DOMAIN forecasts :
                                 forecasts[k].agent_id = a /\ Scored(k)}

\* C16: the calibration of an agent without a scored forecast (unknown,
\* without forecasts, or with unscored forecasts only) is a normal response
\* with total_resolved_forecasts 0, calibration_error null and no buckets.
\* Checked under SpecBoard.
C16_NoScoredForecastsIsNotAnError ==
    (/\ out.kind = "calibration"
     /\ \A k \in DOMAIN forecasts : forecasts[k].agent_id = out.agent_id => ~Scored(k))
    => /\ out.status = 200
       /\ out.total_resolved_forecasts = 0
       /\ out.calibration_error = None
       /\ out.buckets = <<>>

\* a1 has a forecast, none of a1's forecasts is scored, and a1's calibration
\* was requested
C16_Witness ==
    /\ out.kind = "calibration"
    /\ out.agent_id = "a1"
    /\ out.status = 200
    /\ \E k \in DOMAIN forecasts : forecasts[k].agent_id = "a1"
    /\ \A k \in DOMAIN forecasts : forecasts[k].agent_id = "a1" => ~Scored(k)

\* C17: for the empty forecast list the calibration primitive returns a
\* null mean error, not the number zero, and an empty bucket list.
\* Checked under SpecPrimitives.
C17_EmptyListHasNullMeanError ==
    (/\ out.kind = "returned"
     /\ out.fn = "calculate_calibration_error"
     /\ out.forecasts = <<>>)
    => /\ out.mean_calibration_error = None
       /\ out.bucket_results = <<>>

\* the returned bucket whose range holds the probability p (in percent):
\* [bucket_min, bucket_max), the last one closed at 100
InRange(p, b) ==
    /\ b.bucket_min <= p
    /\ p < b.bucket_max \/ (p = 100 /\ b.bucket_max = 100)

\* C18: for every list of forecasts with probabilities in [0, 1] the
\* calibration primitive returns buckets such that every forecast lies in the
\* range of exactly one of them and that bucket counts exactly the forecasts
\* of its range, the counts sum to the length of the list, no returned bucket
\* is empty, and bucket_min increases strictly along the list.
\* Checked under SpecPrimitives.
C18_BucketsPartitionTheInput ==
    (out.kind = "returned" /\ out.fn = "calculate_calibration_error") =>
        LET bs == out.bucket_results
            fs == out.forecasts
        IN  /\ \A k \in DOMAIN fs :
                  Cardinality({i \in DOMAIN bs : InRange(fs[k].probability, bs[i])}) = 1
            /\ \A i \in DOMAIN bs :
                  /\ bs[i].count =
                        Cardinality({k \in DOMAIN fs : InRange(fs[k].probability, bs[i])})
                  /\ bs[i].count > 0
                  /\ bs[i].bucket_min \in {10 * j : j \in 0..9}
                  /\ bs[i].bucket_max = bs[i].bucket_min + 10
                  /\ \A j \in DOMAIN bs : i < j => bs[i].bucket_min < bs[j].bucket_min
            /\ SumOf([i \in DOMAIN bs |-> bs[i].count], DOMAIN bs) = Len(fs)

\* a list with probability 1.0 and a probability of a lower bucket, given in
\* decreasing order
C18_Witness ==
    /\ out.kind = "returned"
    /\ out.fn = "calculate_calibration_error"
    /\ Len(out.forecasts) = 2
    /\ out.forecasts[1].probability = 100
    /\ out.forecasts[2].probability = 9
    /\ Len(out.bucket_results) = 2

\* C19: the Brier primitive called with a probability outside [0, 1] does
\* not return a score.  Checked under SpecPrimitives.
C19_OutOfRangeIsRejected ==
    (/\ out.kind = "returned"
     /\ out.fn = "calculate_brier_score")
    => out.probability \in 0..100

\* the stored forecast k satisfies the constraints of ForecastCreate
StoredValid(k) ==
    /\ forecasts[k].probability >= 0
    /\ forecasts[k].probability <= 100
    /\ forecasts[k].confidence \in {"high", "medium", "low"}

\* C20: every stored forecast has a probability in [0, 1] and a confidence
\* among high, medium and low, and a submission with a probability outside
\* [0, 1] or another confidence is answered with 422 in a step that changes
\* no stored record and starts no handler.  Checked under SpecBodies.
C20_InvalidSubmissionsNeverStored ==
    /\ [](\A k \in DOMAIN forecasts : StoredValid(k))
    /\ [][(out'.kind = "validation") =>
             /\ out'.status = 422
             /\ UNCHANGED <<markets, forecasts, rl>>]_vars

\* a refused body was answered while a forecast is stored
C20_Witness ==
    /\ out.kind = "validation"
    /\ out.body.probability = 150
    /\ Len(forecasts) > 0

\* the forecast k has exactly one of outcome and brier_score set
HalfScored(k) == (forecasts[k].outcome = "null") # (forecasts[k].brier_score = NULL)

\* C21: a read query (calibration, market-price comparison, agent stats of
\* an agent; benchmark ranking over the active agents) that meets a forecast
\* with exactly one of outcome and brier_score set does not answer normally.
\* Checked under SpecTable.
C21_HalfScoredFailsTheRead ==
    /\ (/\ out.kind \in {"calibration", "market_comparison", "stats"}
        /\ \E k \in DOMAIN forecasts :
              forecasts[k].agent_id = out.agent_id /\ HalfScored(k))
       => out.status # 200
    /\ (/\ out.kind = "benchmark"
        /\ \E k \in DOMAIN forecasts :
              agent_status[forecasts[k].agent_id] = "active" /\ HalfScored(k))
       => out.status # 200

\* C22: in the market-price comparison of an agent total_comparable is the
\* number of its scored forecasts with a recorded market price,
\* beat_market_count is the number of those whose stored Brier score is
\* strictly below (market price - outcome)^2, so that
\* 0 <= beat_market_count <= total_comparable, and the rate is null when
\* nothing is comparable; stated for agents whose forecasts have outcome and
\* brier_score both set or both unset.  Checked under SpecTable.
C22_BeatMarketCountsStrictWins ==
    (/\ out.kind = "market_comparison"
     /\ \A k \in DOMAIN forecasts :
           forecasts[k].agent_id = out.agent_id => ~HalfScored(k)) =>
        LET comparable == {k \in DOMAIN forecasts :
                             /\ forecasts[k].agent_id = out.agent_id
                             /\ Scored(k)
                             /\ forecasts[k].market_price_at_forecast # NULL}
            o(k) == IF forecasts[k].outcome = "yes" THEN 100 ELSE 0
            wins == {k \in comparable :
                       forecasts[k].brier_score <
                           (forecasts[k].market_price_at_forecast - o(k))
                               * (forecasts[k].market_price_at_forecast - o(k))}
        IN  /\ out.status = 200
            /\ out.total_comparable = Cardinality(comparable)
            /\ out.beat_market_count = Cardinality(wins)
            /\ 0 <= out.beat_market_count
            /\ out.beat_market_count <= out.total_comparable
            /\ (comparable = {}) => out.beat_market_rate = None
            /\ (comparable # {}) =>
                  out.beat_market_rate = Frac(Cardinality(wins), Cardinality(comparable))

\* a1 has two comparable forecasts: one beats the market price, the other
\* ties with it (probability equal to the price) and is not counted
C22_Witness ==
    /\ out.kind = "market_comparison"
    /\ out.agent_id = "a1"
    /\ out.total_comparable = 2
    /\ out.beat_market_count = 1
    /\ \A k \in DOMAIN forecasts : ~HalfScored(k)
    /\ \E k \in DOMAIN forecasts :
          /\ forecasts[k].agent_id = "a1"
          /\ forecasts[k].outcome # "null"
          /\ forecasts[k].brier_score # NULL
          /\ forecasts[k].probability = forecasts[k].market_price_at_forecast

\* C23: a cycle of the worker that failed (feed unreachable, storage error
\* in the sync or in the backfill) is followed by the sleep of the loop, and
\* every sleep is followed by the start of another cycle.  Checked under
\* LiveSpec.
C23_FailedCycleIsFollowedByAnother ==
    /\ (wl["w1"].pc = "except") ~> (wl["w1"].pc = "sleep")
    /\ (wl["w1"].pc = "sleep") ~> (wl["w1"].pc \in {"sync", "except"})

\* a storage error has ended a cycle during the backfill
C23_Witness ==
    /\ wl["w1"].pc = "except"
    /\ wl["w1"].cause = "storage"
    /\ ~wl["w1"].in_sync

\* C24: when sync_resolved_markets of a tick returns, every market of the
\* batch that passed the outcome filter is stored as resolved and every
\* forecast that existed for such a market when the tick selected its
\* forecasts is scored; and the commit by which a worker makes a market's
\* resolution visible also makes the scores of those forecasts visible, no
\* score being visible before the resolution.  Checked under SpecTick.
C24_CompletedTickResolvesAndScores ==
    /\ [][\A w \in Workers :
            (wl[w].pc = "sync" /\ wl'[w].pc = "backfill") =>
               /\ \A m \in tick[w].valid : StoredResolved(markets', m)
               /\ \A k \in tick[w].read : forecasts'[k].brier_score # NULL]_vars
    /\ [][\A w \in Workers, m \in Markets :
            (/\ wl'[w] # wl[w]
             /\ ~StoredResolved(markets, m)
             /\ StoredResolved(markets', m)) =>
               \A k \in tick[w].read :
                  forecasts[k].market_id = m => forecasts'[k].brier_score # NULL]_vars
    /\ [](\A k \in DOMAIN forecasts :
            Scored(k) => StoredResolved(markets, forecasts[k].market_id))

\* the sync of a tick has returned after resolving both markets and scoring
\* the forecasts it read
C24_Witness ==
    /\ wl["w1"].pc = "backfill"
    /\ tick["w1"].valid = Markets
    /\ Cardinality(tick["w1"].read) = 2
    /\ \A k \in tick["w1"].read : Scored(k)
    /\ \A m \in Markets : StoredResolved(markets, m)

\* C25: every scored forecast has brier_score = (probability - o)^2 for the
\* probability and the outcome it stores now, o being 1 for YES and 0 for NO.
\* Checked under SpecSeq.
C25_BrierMatchesStoredProbability ==
    \A k \in DOMAIN forecasts :
        Scored(k) =>
            LET o == IF forecasts[k].outcome = "yes" THEN 100 ELSE 0
            IN  forecasts[k].brier_score
                    = (forecasts[k].probability - o) * (forecasts[k].probability - o)

\* C26: every scored forecast whose market has a stored record carries the
\* resolution_outcome stored for that market.  Checked under SpecSeq.
C26_OutcomeIsTheMarketsOutcome ==
    \A k \in DOMAIN forecasts :
        (Scored(k) /\ markets[forecasts[k].market_id].exists) =>
            forecasts[k].outcome = markets[forecasts[k].market_id].resolution_outcome

\* C27: also with concurrent requests there is never more than one forecast
\* record of an agent for a market.  Checked under SpecBodies.
C27_ConcurrentSubmitsLeaveOneRecord ==
    \A a \in Agents, m \in Markets : Cardinality(FindExisting(forecasts, a, m)) <= 1

\* C28: the commit of a resubmission sets probability, confidence and
\* reasoning of the agent's existing record to the submitted values and
\* changes nothing else: market_price_at_forecast, outcome and brier_score of
\* the record, every other record, and the market cache stay as they were.
\* Checked under SpecResubmit.
C28_ResubmissionChangesThreeFields ==
    [][\A r \in Requests :
          (rl[r].pc = "update" /\ rl'[r].pc = "updated") =>
             LET k == rl[r].existing
             IN  /\ forecasts' = [forecasts EXCEPT
                                    ![k].probability = rl[r].probability,
                                    ![k].confidence = rl[r].confidence,
                                    ![k].reasoning = rl[r].reasoning]
                 /\ forecasts'[k].market_price_at_forecast
                        = forecasts[k].market_price_at_forecast
                 /\ forecasts'[k].outcome = forecasts[k].outcome
                 /\ forecasts'[k].brier_score = forecasts[k].brier_score
                 /\ markets' = markets]_vars

\* a forecast submitted as 0.3 at price 0.40 and scored was resubmitted as
\* 0.8 after the price moved to 0.60; next to it there is another forecast
C28_Witness ==
    /\ rl["r1"].pc = "updated"
    /\ markets["m1"].yes_price = 60
    /\ Len(forecasts) = 2
    /\ LET k == rl["r1"].existing
       IN  /\ forecasts[k].probability = 80
           /\ forecasts[k].confidence = "low"
           /\ forecasts[k].market_price_at_forecast = 40
           /\ forecasts[k].brier_score \in {900, 4900}

\* C29: within a cycle score_pending_forecasts starts only at the return of
\* sync_resolved_markets, a cycle that raised goes to the sleep of the loop
\* without a backfill, and in a cycle whose sync raised no forecast that was
\* unscored on an already-resolved market has been scored.  Checked under
\* SpecTick.
C29_BackfillOnlyAfterSuccessfulSync ==
    /\ [][\A w \in Workers :
            /\ (wl[w].pc # "backfill" /\ wl'[w].pc = "backfill") => wl[w].pc = "sync"
            /\ (wl[w].pc = "except" /\ wl'[w] # wl[w]) => wl'[w].pc = "sleep"]_vars
    /\ [](\A w \in Workers :
            (wl[w].pc = "except" /\ wl[w].in_sync) => tick[w].late = {})

\* a step in which login slot l answers its request
Answered(l) == ll'[l].pc = "idle" /\ ll'[l].turn # ll[l].turn

\* C30: a challenge yields at most one login that returns a token; a login
\* that returns a token leaves the agent without a challenge; a login that
\* finds the challenge expired returns no token and removes the challenge;
\* and a token is only returned for the message of the challenge the agent
\* holds when it is returned, never for the message of a replaced or removed
\* one.  Checked under SpecAuth.
C30_ChallengeLogsInAtMostOnce ==
    /\ [](\A n \in DOMAIN logins : logins[n].tokens <= 1)
    /\ [][\A l \in Logins :
            LET a == ll'[l].agent_id
            IN  /\ (Answered(l) /\ ll'[l].status = 200) =>
                       /\ challenges'[a] = NoChallenge
                       /\ challenges[a].nonce = ll[l].nonce
                /\ (/\ Answered(l)
                    /\ ll[l].pc = "idle"
                    /\ challenges[a] # NoChallenge
                    /\ now > challenges[a].expires_at) =>
                       /\ ll'[l].status = 400
                       /\ challenges'[a] = NoChallenge
                       /\ logins' = logins]_vars

====
